---- MODULE Spec2Model ----
(***************************************************************************)
(* The ms duration library: parse (string -> milliseconds) with its LRU    *)
(* cache, fast-path table and grammar, and format (milliseconds -> string).*)
(*                                                                         *)
(* Strings are sequences of one-character strings, so that the grammar,    *)
(* lowercasing, number printing and number reading are computed character  *)
(* by character.  A JavaScript number is a record [t, neg, sec, us]: t is  *)
(* "number", "NaN" or "function" (a non-numeric JavaScript value), and a   *)
(* number is sign * (sec seconds + us microseconds), 0 <= us < 10^6.  The  *)
(* split keeps the year (31557600000 ms) inside the checker's integers.    *)
(***************************************************************************)
EXTENDS Integers, Naturals, Sequences, FiniteSets, TLC

\* ------------------------------------------------------------------ bounds
\* iterations of the cold-cache loop (100000 in the benchmark)
ColdIters == 98
\* number of spellings of one duration that are parsed in a row
MaxCalls == 2
\* number of round trips made in a row
MaxRoundTrips == 2
\* the round trip is tried for k in -RoundTripK .. RoundTripK
RoundTripK == 7

\* ------------------------------------------------------------ characters
DigitChars == <<"0","1","2","3","4","5","6","7","8","9">>

DigitValues == [c \in {DigitChars[n] : n \in 1..10} |->
                  (CHOOSE n \in 1..10 : DigitChars[n] = c) - 1]

\* the class \d
IsDigit(c) == c \in DOMAIN DigitValues

DigitValue(c) == DigitValues[c]

UpperChars == <<"A","B","C","D","E","F","G","H","I","J","K","L","M",
                "N","O","P","Q","R","S","T","U","V","W","X","Y","Z">>

LowerChars == <<"a","b","c","d","e","f","g","h","i","j","k","l","m",
                "n","o","p","q","r","s","t","u","v","w","x","y","z">>

LowerOf == [c \in {UpperChars[n] : n \in 1..26} |->
              LowerChars[CHOOSE n \in 1..26 : UpperChars[n] = c]]

UpperOf == [c \in {LowerChars[n] : n \in 1..26} |->
              UpperChars[CHOOSE n \in 1..26 : LowerChars[n] = c]]

\* String.prototype.toLowerCase, one character
toLowerChar(c) == IF c \in DOMAIN LowerOf THEN LowerOf[c] ELSE c

\* String.prototype.toLowerCase
toLowerCase(str) == [n \in 1..Len(str) |-> toLowerChar(str[n])]

\* String.prototype.toUpperCase, one character
toUpperChar(c) == IF c \in DOMAIN UpperOf THEN UpperOf[c] ELSE c

toUpperCase(str) == [n \in 1..Len(str) |-> toUpperChar(str[n])]

\* 'x'.repeat(n)
Repeat(c, n) == [k \in 1..n |-> c]

\* --------------------------------------------------------------- numbers
Num(neg, sec, us) == [t |-> "number", neg |-> neg, sec |-> sec, us |-> us]

NaN == [t |-> "NaN", neg |-> FALSE, sec |-> 0, us |-> 0]

\* a member of Object.prototype read through a plain object: not a number
ObjectPrototypeMember == [t |-> "function", neg |-> FALSE, sec |-> 0, us |-> 0]

\* an integer count of milliseconds, |k| < 2^31
Millis(k) ==
  LET a == IF k < 0 THEN -k ELSE k
  IN  Num(k < 0, a \div 1000, (a % 1000) * 1000)

IsNumber(v) == v.t = "number"

IsZero(v) == v.sec = 0 /\ v.us = 0

\* === on two numbers (-0 === 0)
NumEq(a, b) ==
  /\ IsNumber(a) /\ IsNumber(b)
  /\ a.sec = b.sec /\ a.us = b.us
  /\ (a.neg = b.neg \/ IsZero(a))

\* Math.abs
Abs(v) == Num(FALSE, v.sec, v.us)

\* a >= b for two non-negative numbers
Geq(a, b) == a.sec > b.sec \/ (a.sec = b.sec /\ a.us >= b.us)

\* k * v for an integer k
Times(k, v) ==
  LET a  == IF k < 0 THEN -k ELSE k
      us == a * v.us
  IN  Num((k < 0) # v.neg, a * v.sec + us \div 1000000, us % 1000000)

\* v * 1.5
TimesOneAndHalf(v) ==
  LET hs == 3 * v.sec
      us == (hs % 2) * 500000 + (3 * v.us) \div 2
  IN  Num(v.neg, hs \div 2 + us \div 1000000, us % 1000000)

\* v / 2
Half(v) ==
  LET us == (v.sec % 2) * 500000 + v.us \div 2
  IN  Num(v.neg, v.sec \div 2 + us \div 1000000, us % 1000000)

\* |a - b| for two numbers
AbsDiff(a, b) ==
  LET hi == IF Geq(Abs(a), Abs(b)) THEN Abs(a) ELSE Abs(b)
      lo == IF Geq(Abs(a), Abs(b)) THEN Abs(b) ELSE Abs(a)
      sameSign == (a.neg = b.neg) \/ IsZero(a) \/ IsZero(b)
      sub == IF hi.us >= lo.us
               THEN Num(FALSE, hi.sec - lo.sec, hi.us - lo.us)
               ELSE Num(FALSE, hi.sec - lo.sec - 1, hi.us + 1000000 - lo.us)
      add == Num(FALSE, hi.sec + lo.sec + (hi.us + lo.us) \div 1000000,
                 (hi.us + lo.us) % 1000000)
  IN  IF sameSign THEN sub ELSE add

\* ------------------------------------------------------------ unit sizes
s == Num(FALSE, 1, 0)

m == Times(60, s)

h == Times(60, m)

d == Times(24, h)

w == Times(7, d)

\* a year of 365 days in place of d * 365.25
yThreeSixtyFiveDays == Num(FALSE, 365 * d.sec, 0)

\* d * 365.25
y == Num(FALSE, 365 * d.sec + d.sec \div 4, 0)

\* a month of thirty days in place of y / 12
moThirtyDays == Num(FALSE, 30 * d.sec, 0)

\* y / 12
mo == Num(FALSE, y.sec \div 12, 0)

\* ------------------------------------------------- numbers to and from text
RECURSIVE Digits(_)
\* the decimal digits of a natural number
Digits(n) ==
  IF n < 10 THEN <<DigitChars[n + 1]>>
            ELSE Digits(n \div 10) \o <<DigitChars[(n % 10) + 1]>>

\* String(k) for an integer k, as the template literals print Math.round(..)
IntToString(k) == IF k < 0 THEN <<"-">> \o Digits(-k) ELSE Digits(k)

\* the three digits of the millisecond part below a non-zero second count
Pad3(n) == <<DigitChars[(n \div 100) + 1], DigitChars[((n \div 10) % 10) + 1],
             DigitChars[(n % 10) + 1]>>

\* the fraction digits of a microsecond count below one millisecond
FractionDigits(f) ==
  IF f % 100 = 0 THEN <<DigitChars[(f \div 100) + 1]>>
  ELSE IF f % 10 = 0 THEN <<DigitChars[(f \div 100) + 1], DigitChars[((f \div 10) % 10) + 1]>>
  ELSE Pad3(f)

\* String(v) for a number v, as `${ms}` prints it (-0 prints as 0)
NumberToString(v) ==
  LET whole == v.us \div 1000
      frac  == v.us % 1000
      int   == IF v.sec = 0 THEN Digits(whole) ELSE Digits(v.sec) \o Pad3(whole)
      body  == IF frac = 0 THEN int ELSE int \o <<".">> \o FractionDigits(frac)
  IN  IF v.neg /\ ~IsZero(v) THEN <<"-">> \o body ELSE body

RECURSIVE DigitsValue(_)
\* the natural number a sequence of digits denotes (0 for no digits)
DigitsValue(ds) ==
  IF ds = <<>> THEN 0
  ELSE 10 * DigitsValue(SubSeq(ds, 1, Len(ds) - 1)) + DigitValue(ds[Len(ds)])

RECURSIVE Pow10(_)
Pow10(n) == IF n = 0 THEN 1 ELSE 10 * Pow10(n - 1)

\* parseFloat on a text of the form -?\d*\.?\d+ : sign, all digits read as
\* one integer, and the number of digits after the point
parseFloat(value) ==
  LET neg  == value[1] = "-"
      body == IF neg THEN Tail(value) ELSE value
      dot  == IF \E p \in 1..Len(body) : body[p] = "."
                THEN CHOOSE p \in 1..Len(body) : body[p] = "."
                ELSE 0
      ds   == IF dot = 0 THEN body
              ELSE SubSeq(body, 1, dot - 1) \o SubSeq(body, dot + 1, Len(body))
  IN  [neg |-> neg, mantissa |-> DigitsValue(ds),
       decimals |-> IF dot = 0 THEN 0 ELSE Len(body) - dot]

\* n * multiplier for a parsed magnitude n (at most three decimals) and a
\* multiplier that is a whole number of seconds or of milliseconds
Mul(n, multiplier) ==
  LET den    == Pow10(n.decimals)
      psec   == n.mantissa * multiplier.sec
      pus    == n.mantissa * multiplier.us
      us     == (psec % den) * (1000000 \div den) + pus \div den
  IN  Num(n.neg, psec \div den + us \div 1000000, us % 1000000)

\* Math.trunc(ms / n) in place of Math.round(ms / n)
RoundTowardsZero(v, n) ==
  IF v.neg THEN -(v.sec \div n.sec) ELSE v.sec \div n.sec

\* Math.round(ms / n) for |ms| >= n and n a whole number of seconds
\* (Math.round rounds a half towards +Infinity)
Round(v, n) ==
  LET up   == 2 * v.sec + n.sec + (2 * v.us) \div 1000000
      down == 2 * v.sec - n.sec + (2 * v.us) \div 1000000
      rest == (2 * v.us) % 1000000
  IN  IF ~v.neg THEN up \div (2 * n.sec)
      ELSE IF rest = 0 THEN (-down) \div (2 * n.sec)
      ELSE -((down \div (2 * n.sec)) + 1)

\* --------------------------------------------------------------- grammar
\* the spellings of the unit group of parseRegex, each ...s? written out
UnitAlternatives == {
  <<"m","i","l","l","i","s","e","c","o","n","d","s">>,
  <<"m","i","l","l","i","s","e","c","o","n","d">>,
  <<"m","s","e","c","s">>,
  <<"m","s","e","c">>,
  <<"m","s">>,
  <<"s","e","c","o","n","d","s">>,
  <<"s","e","c","o","n","d">>,
  <<"s","e","c","s">>,
  <<"s","e","c">>,
  <<"s">>,
  <<"m","i","n","u","t","e","s">>,
  <<"m","i","n","u","t","e">>,
  <<"m","i","n","s">>,
  <<"m","i","n">>,
  <<"m">>,
  <<"h","o","u","r","s">>,
  <<"h","o","u","r">>,
  <<"h","r","s">>,
  <<"h","r">>,
  <<"h">>,
  <<"d","a","y","s">>,
  <<"d","a","y">>,
  <<"d">>,
  <<"w","e","e","k","s">>,
  <<"w","e","e","k">>,
  <<"w">>,
  <<"m","o","n","t","h","s">>,
  <<"m","o","n","t","h">>,
  <<"m","o">>,
  <<"y","e","a","r","s">>,
  <<"y","e","a","r">>,
  <<"y","r","s">>,
  <<"y","r">>,
  <<"y">> }

IsValueChar(c) == IsDigit(c) \/ c = "-" \/ c = "."

\* the length of the longest prefix of str made of characters of the value
\* group; the value group, the spaces and the unit use disjoint characters,
\* so the groups of a match are the maximal runs
ValueEnd(str) ==
  CHOOSE n \in 0..Len(str) :
    /\ \A k \in 1..n : IsValueChar(str[k])
    /\ (n = Len(str) \/ ~IsValueChar(str[n + 1]))

\* the end of the run of spaces that starts after position from
SpacesEnd(str, from) ==
  CHOOSE n \in from..Len(str) :
    /\ \A k \in (from + 1)..n : str[k] = " "
    /\ (n = Len(str) \/ str[n + 1] # " ")

\* -?\d*\.?\d+ on a whole text
MatchesValue(value) ==
  LET body == IF value # <<>> /\ value[1] = "-" THEN Tail(value) ELSE value
  IN  /\ body # <<>>
      /\ \E p \in 0..(Len(body) - 1) :
           \A k \in 1..Len(body) :
             IF k = p THEN body[k] = "." ELSE IsDigit(body[k])

\* a unit group that takes any word of letters: [a-z]+ under flag i
MatchesAnyWord(unit) ==
  \A k \in 1..Len(unit) : toLowerChar(unit[k]) \in DOMAIN UpperOf

\* the unit group, case-insensitive (flag i)
MatchesUnit(unit) == toLowerCase(unit) \in UnitAlternatives

\* parseRegex.exec(str): matched, and the groups value and unit; unit is
\* the empty text when the optional unit group did not take part
parseRegex(str) ==
  LET ve    == ValueEnd(str)
      se    == SpacesEnd(str, ve)
      value == SubSeq(str, 1, ve)
      unit  == SubSeq(str, se + 1, Len(str))
  IN  IF MatchesValue(value) /\ (unit = <<>> \/ MatchesUnit(unit))
        THEN [matched |-> TRUE, value |-> value, unit |-> unit]
        ELSE [matched |-> FALSE, value |-> <<>>, unit |-> <<>>]

\* ---------------------------------------------------------------- tables
undefined == [t |-> "undefined", neg |-> FALSE, sec |-> 0, us |-> 0]

\* a numeric literal of the source, written as seconds and milliseconds
Literal(sec, millis) == Num(FALSE, sec, millis * 1000)

\* the own keys of commonValues and their values
commonValues ==
  (<<"1","s">> :> Literal(1, 0)) @@
  (<<"2","s">> :> Literal(2, 0)) @@
  (<<"5","s">> :> Literal(5, 0)) @@
  (<<"1","0","s">> :> Literal(10, 0)) @@
  (<<"1","5","s">> :> Literal(15, 0)) @@
  (<<"3","0","s">> :> Literal(30, 0)) @@
  (<<"1","m">> :> Literal(60, 0)) @@
  (<<"2","m">> :> Literal(120, 0)) @@
  (<<"5","m">> :> Literal(300, 0)) @@
  (<<"1","0","m">> :> Literal(600, 0)) @@
  (<<"1","5","m">> :> Literal(900, 0)) @@
  (<<"3","0","m">> :> Literal(1800, 0)) @@
  (<<"1","h">> :> Literal(3600, 0)) @@
  (<<"2","h">> :> Literal(7200, 0)) @@
  (<<"3","h">> :> Literal(10800, 0)) @@
  (<<"6","h">> :> Literal(21600, 0)) @@
  (<<"1","2","h">> :> Literal(43200, 0)) @@
  (<<"1","d">> :> Literal(86400, 0)) @@
  (<<"2","d">> :> Literal(172800, 0)) @@
  (<<"7","d">> :> Literal(604800, 0)) @@
  (<<"1","w">> :> Literal(604800, 0)) @@
  (<<"2","w">> :> Literal(1209600, 0)) @@
  (<<"1","m","o">> :> Literal(2629800, 0)) @@
  (<<"1","y">> :> Literal(31557600, 0)) @@
  (<<"1"," ","s">> :> Literal(1, 0)) @@
  (<<"1"," ","m">> :> Literal(60, 0)) @@
  (<<"1"," ","h">> :> Literal(3600, 0)) @@
  (<<"1"," ","d">> :> Literal(86400, 0)) @@
  (<<"1"," ","w">> :> Literal(604800, 0)) @@
  (<<"1","0","0">> :> Literal(0, 100)) @@
  (<<"1","0","0","0">> :> Literal(1, 0)) @@
  (<<"5","0","0","0">> :> Literal(5, 0))

\* keys that every plain object inherits from Object.prototype
ObjectPrototypeKeys == {
  <<"c","o","n","s","t","r","u","c","t","o","r">>,
  <<"t","o","S","t","r","i","n","g">>,
  <<"v","a","l","u","e","O","f">>,
  <<"h","a","s","O","w","n","P","r","o","p","e","r","t","y">> }

\* table[key] on a plain object: an own key, else a key inherited from
\* Object.prototype, else undefined
PropertyRead(table, key) ==
  IF key \in DOMAIN table THEN table[key]
  ELSE IF key \in ObjectPrototypeKeys THEN ObjectPrototypeMember
  ELSE undefined

\* a unit table that lacks the spelling yrs of the grammar
unitMultipliersWithoutYrs ==
  (<<"y","e","a","r","s">> :> y) @@
  (<<"y","e","a","r">> :> y) @@
  (<<"y","r">> :> y) @@
  (<<"y">> :> y) @@
  (<<"m","o","n","t","h","s">> :> mo) @@
  (<<"m","o","n","t","h">> :> mo) @@
  (<<"m","o">> :> mo) @@
  (<<"w","e","e","k","s">> :> w) @@
  (<<"w","e","e","k">> :> w) @@
  (<<"w">> :> w) @@
  (<<"d","a","y","s">> :> d) @@
  (<<"d","a","y">> :> d) @@
  (<<"d">> :> d) @@
  (<<"h","o","u","r","s">> :> h) @@
  (<<"h","o","u","r">> :> h) @@
  (<<"h","r","s">> :> h) @@
  (<<"h","r">> :> h) @@
  (<<"h">> :> h) @@
  (<<"m","i","n","u","t","e","s">> :> m) @@
  (<<"m","i","n","u","t","e">> :> m) @@
  (<<"m","i","n","s">> :> m) @@
  (<<"m","i","n">> :> m) @@
  (<<"m">> :> m) @@
  (<<"s","e","c","o","n","d","s">> :> s) @@
  (<<"s","e","c","o","n","d">> :> s) @@
  (<<"s","e","c","s">> :> s) @@
  (<<"s","e","c">> :> s) @@
  (<<"s">> :> s) @@
  (<<"m","i","l","l","i","s","e","c","o","n","d","s">> :> Millis(1)) @@
  (<<"m","i","l","l","i","s","e","c","o","n","d">> :> Millis(1)) @@
  (<<"m","s","e","c","s">> :> Millis(1)) @@
  (<<"m","s","e","c">> :> Millis(1)) @@
  (<<"m","s">> :> Millis(1))

\* the own keys of unitMultipliers and their values
unitMultipliers ==
  (<<"y","e","a","r","s">> :> y) @@
  (<<"y","e","a","r">> :> y) @@
  (<<"y","r","s">> :> y) @@
  (<<"y","r">> :> y) @@
  (<<"y">> :> y) @@
  (<<"m","o","n","t","h","s">> :> mo) @@
  (<<"m","o","n","t","h">> :> mo) @@
  (<<"m","o">> :> mo) @@
  (<<"w","e","e","k","s">> :> w) @@
  (<<"w","e","e","k">> :> w) @@
  (<<"w">> :> w) @@
  (<<"d","a","y","s">> :> d) @@
  (<<"d","a","y">> :> d) @@
  (<<"d">> :> d) @@
  (<<"h","o","u","r","s">> :> h) @@
  (<<"h","o","u","r">> :> h) @@
  (<<"h","r","s">> :> h) @@
  (<<"h","r">> :> h) @@
  (<<"h">> :> h) @@
  (<<"m","i","n","u","t","e","s">> :> m) @@
  (<<"m","i","n","u","t","e">> :> m) @@
  (<<"m","i","n","s">> :> m) @@
  (<<"m","i","n">> :> m) @@
  (<<"m">> :> m) @@
  (<<"s","e","c","o","n","d","s">> :> s) @@
  (<<"s","e","c","o","n","d">> :> s) @@
  (<<"s","e","c","s">> :> s) @@
  (<<"s","e","c">> :> s) @@
  (<<"s">> :> s) @@
  (<<"m","i","l","l","i","s","e","c","o","n","d","s">> :> Millis(1)) @@
  (<<"m","i","l","l","i","s","e","c","o","n","d">> :> Millis(1)) @@
  (<<"m","s","e","c","s">> :> Millis(1)) @@
  (<<"m","s","e","c">> :> Millis(1)) @@
  (<<"m","s">> :> Millis(1))

\* ----------------------------------------------------------------- cache
maxSize == 100

\* Map.prototype.has
LRUCacheHas(c, key) == \E n \in 1..Len(c) : c[n].key = key

\* Map.prototype.get
MapGet(c, key) ==
  IF LRUCacheHas(c, key) THEN (CHOOSE e \in {c[n] : n \in 1..Len(c)} : e.key = key).value
  ELSE undefined

\* Map.prototype.delete: the other entries keep their order
MapDelete(c, key) == SelectSeq(c, LAMBDA e : e.key # key)

\* Map.prototype.set: a new key goes last, a present key keeps its place
MapSet(c, key, value) ==
  IF LRUCacheHas(c, key)
    THEN [n \in 1..Len(c) |-> IF c[n].key = key THEN [key |-> key, value |-> value] ELSE c[n]]
    ELSE Append(c, [key |-> key, value |-> value])

\* LRUCache.get without the move to the end
LRUCacheGetNoPromotion(c, key) == [value |-> MapGet(c, key), cache |-> c]

\* LRUCache.get: the value and the cache after the call
LRUCacheGet(c, key) ==
  LET value == MapGet(c, key)
  IN  IF value # undefined
        THEN [value |-> value, cache |-> MapSet(MapDelete(c, key), key, value)]
        ELSE [value |-> value, cache |-> c]

\* LRUCache.set without the removal of the oldest entry
LRUCacheSetNoEviction(c, key, value) ==
  IF LRUCacheHas(c, key) THEN MapSet(MapDelete(c, key), key, value)
  ELSE MapSet(c, key, value)

\* LRUCache.set: the cache after the call
LRUCacheSet(c, key, value) ==
  IF LRUCacheHas(c, key) THEN MapSet(MapDelete(c, key), key, value)
  ELSE IF Len(c) >= maxSize THEN MapSet(MapDelete(c, c[1].key), key, value)
  ELSE MapSet(c, key, value)

\* ----------------------------------------------------------------- parse
Return(v) == [kind |-> "return", value |-> v, error |-> "", unit |-> <<>>]

Throw(error, unit) == [kind |-> "throw", value |-> undefined, error |-> error, unit |-> unit]

\* the text 'ms', the default of the unit group
DefaultUnit == <<"m","s">>

\* parse with the table consulted before the cache and never copied into it
parseTableFirst(str, c) ==
  IF Len(str) = 0 \/ Len(str) > 100
    THEN [outcome |-> Throw("InvalidArgument", <<>>), cache |-> c]
  ELSE
  LET cached == LRUCacheGet(c, str)
      commonValue == PropertyRead(commonValues, str)
      match == parseRegex(str)
      unit == IF match.unit = <<>> THEN DefaultUnit ELSE match.unit
      n == parseFloat(match.value)
      matchUnit == toLowerCase(unit)
      multiplier == PropertyRead(unitMultipliers, matchUnit)
      result == Mul(n, multiplier)
  IN  IF commonValue # undefined
        THEN [outcome |-> Return(commonValue), cache |-> c]
      ELSE IF cached.value # undefined
        THEN [outcome |-> Return(cached.value), cache |-> cached.cache]
      ELSE IF ~match.matched
        THEN [outcome |-> Return(NaN), cache |-> c]
      ELSE IF multiplier = undefined
        THEN [outcome |-> Throw("UnknownUnit", matchUnit), cache |-> c]
      ELSE [outcome |-> Return(result), cache |-> LRUCacheSet(c, str, result)]

\* a parse that also stores the NaN of a string the grammar rejects
parseStoresNaN(str, c) ==
  IF Len(str) = 0 \/ Len(str) > 100
    THEN [outcome |-> Throw("InvalidArgument", <<>>), cache |-> c]
  ELSE
  LET cached == LRUCacheGet(c, str)
      commonValue == PropertyRead(commonValues, str)
      match == parseRegex(str)
      unit == IF match.unit = <<>> THEN DefaultUnit ELSE match.unit
      n == parseFloat(match.value)
      matchUnit == toLowerCase(unit)
      multiplier == PropertyRead(unitMultipliers, matchUnit)
      result == Mul(n, multiplier)
  IN  IF cached.value # undefined
        THEN [outcome |-> Return(cached.value), cache |-> cached.cache]
      ELSE IF commonValue # undefined
        THEN [outcome |-> Return(commonValue), cache |-> LRUCacheSet(c, str, commonValue)]
      ELSE IF ~match.matched
        THEN [outcome |-> Return(NaN), cache |-> LRUCacheSet(c, str, NaN)]
      ELSE IF multiplier = undefined
        THEN [outcome |-> Throw("UnknownUnit", matchUnit), cache |-> c]
      ELSE [outcome |-> Return(result), cache |-> LRUCacheSet(c, str, result)]

\* parse(str) in cache c: the outcome and the cache after the call
parse(str, c) ==
  IF Len(str) = 0 \/ Len(str) > 100
    THEN [outcome |-> Throw("InvalidArgument", <<>>), cache |-> c]
  ELSE
  LET cached == LRUCacheGet(c, str)
      commonValue == PropertyRead(commonValues, str)
      match == parseRegex(str)
      unit == IF match.unit = <<>> THEN DefaultUnit ELSE match.unit
      n == parseFloat(match.value)
      matchUnit == toLowerCase(unit)
      multiplier == PropertyRead(unitMultipliers, matchUnit)
      result == Mul(n, multiplier)
  IN  IF cached.value # undefined
        THEN [outcome |-> Return(cached.value), cache |-> cached.cache]
      ELSE IF commonValue # undefined
        THEN [outcome |-> Return(commonValue), cache |-> LRUCacheSet(c, str, commonValue)]
      ELSE IF ~match.matched
        THEN [outcome |-> Return(NaN), cache |-> c]
      ELSE IF multiplier = undefined
        THEN [outcome |-> Throw("UnknownUnit", matchUnit), cache |-> c]
      ELSE [outcome |-> Return(result), cache |-> LRUCacheSet(c, str, result)]

\* the unit spellings of the cases of parseOriginal's switch
Years == {<<"y","e","a","r","s">>, <<"y","e","a","r">>, <<"y","r","s">>, <<"y","r">>, <<"y">>}

Months == {<<"m","o","n","t","h","s">>, <<"m","o","n","t","h">>, <<"m","o">>}

Weeks == {<<"w","e","e","k","s">>, <<"w","e","e","k">>, <<"w">>}

Days == {<<"d","a","y","s">>, <<"d","a","y">>, <<"d">>}

Hours == {<<"h","o","u","r","s">>, <<"h","o","u","r">>, <<"h","r","s">>, <<"h","r">>, <<"h">>}

Minutes == {<<"m","i","n","u","t","e","s">>, <<"m","i","n","u","t","e">>, <<"m","i","n","s">>, <<"m","i","n">>, <<"m">>}

Seconds == {<<"s","e","c","o","n","d","s">>, <<"s","e","c","o","n","d">>, <<"s","e","c","s">>, <<"s","e","c">>, <<"s">>}

Milliseconds == {<<"m","i","l","l","i","s","e","c","o","n","d","s">>, <<"m","i","l","l","i","s","e","c","o","n","d">>, <<"m","s","e","c","s">>, <<"m","s","e","c">>, <<"m","s">>}

\* parseOriginal(str), the parser without cache and tables
parseOriginal(str) ==
  IF Len(str) = 0 \/ Len(str) > 100 THEN Throw("InvalidArgument", <<>>)
  ELSE
  LET match == parseRegex(str)
      unit == IF match.unit = <<>> THEN DefaultUnit ELSE match.unit
      n == parseFloat(match.value)
      matchUnit == toLowerCase(unit)
  IN  IF ~match.matched THEN Return(NaN)
      ELSE IF matchUnit \in Years THEN Return(Mul(n, y))
      ELSE IF matchUnit \in Months THEN Return(Mul(n, mo))
      ELSE IF matchUnit \in Weeks THEN Return(Mul(n, w))
      ELSE IF matchUnit \in Days THEN Return(Mul(n, d))
      ELSE IF matchUnit \in Hours THEN Return(Mul(n, h))
      ELSE IF matchUnit \in Minutes THEN Return(Mul(n, m))
      ELSE IF matchUnit \in Seconds THEN Return(Mul(n, s))
      ELSE IF matchUnit \in Milliseconds THEN Return(Mul(n, Millis(1)))
      ELSE Throw("UnknownUnit", matchUnit)

\* ---------------------------------------------------------------- format
\* plural without the plural suffix
pluralAlwaysSingular(v, msAbs, n, name) ==
  IntToString(Round(v, n)) \o <<" ">> \o name

\* Pluralization helper
plural(v, msAbs, n, name) ==
  LET isPlural == Geq(msAbs, TimesOneAndHalf(n))
  IN  IntToString(Round(v, n)) \o <<" ">> \o name \o (IF isPlural THEN <<"s">> ELSE <<>>)

\* a short format that rounds the absolute value
fmtShortOfAbs(v) ==
  LET msAbs == Abs(v)
  IN  IF Geq(msAbs, y) THEN IntToString(Round(msAbs, y)) \o <<"y">>
      ELSE IF Geq(msAbs, mo) THEN IntToString(Round(msAbs, mo)) \o <<"m","o">>
      ELSE IF Geq(msAbs, w) THEN IntToString(Round(msAbs, w)) \o <<"w">>
      ELSE IF Geq(msAbs, d) THEN IntToString(Round(msAbs, d)) \o <<"d">>
      ELSE IF Geq(msAbs, h) THEN IntToString(Round(msAbs, h)) \o <<"h">>
      ELSE IF Geq(msAbs, m) THEN IntToString(Round(msAbs, m)) \o <<"m">>
      ELSE IF Geq(msAbs, s) THEN IntToString(Round(msAbs, s)) \o <<"s">>
      ELSE NumberToString(v) \o <<"m","s">>

\* Short format
fmtShort(v) ==
  LET msAbs == Abs(v)
  IN  IF Geq(msAbs, y) THEN IntToString(Round(v, y)) \o <<"y">>
      ELSE IF Geq(msAbs, mo) THEN IntToString(Round(v, mo)) \o <<"m","o">>
      ELSE IF Geq(msAbs, w) THEN IntToString(Round(v, w)) \o <<"w">>
      ELSE IF Geq(msAbs, d) THEN IntToString(Round(v, d)) \o <<"d">>
      ELSE IF Geq(msAbs, h) THEN IntToString(Round(v, h)) \o <<"h">>
      ELSE IF Geq(msAbs, m) THEN IntToString(Round(v, m)) \o <<"m">>
      ELSE IF Geq(msAbs, s) THEN IntToString(Round(v, s)) \o <<"s">>
      ELSE NumberToString(v) \o <<"m","s">>

\* Long format
fmtLong(v) ==
  LET msAbs == Abs(v)
  IN  IF Geq(msAbs, y) THEN plural(v, msAbs, y, <<"y","e","a","r">>)
      ELSE IF Geq(msAbs, mo) THEN plural(v, msAbs, mo, <<"m","o","n","t","h">>)
      ELSE IF Geq(msAbs, w) THEN plural(v, msAbs, w, <<"w","e","e","k">>)
      ELSE IF Geq(msAbs, d) THEN plural(v, msAbs, d, <<"d","a","y">>)
      ELSE IF Geq(msAbs, h) THEN plural(v, msAbs, h, <<"h","o","u","r">>)
      ELSE IF Geq(msAbs, m) THEN plural(v, msAbs, m, <<"m","i","n","u","t","e">>)
      ELSE IF Geq(msAbs, s) THEN plural(v, msAbs, s, <<"s","e","c","o","n","d">>)
      ELSE NumberToString(v) \o <<" ","m","s">>

\* Infinity and -Infinity
Infinity(neg) == [t |-> "Infinity", neg |-> neg, sec |-> 0, us |-> 0]

\* a value of type string given where a number is expected
StringValue == [t |-> "string", neg |-> FALSE, sec |-> 0, us |-> 0]

\* typeof v === 'number'
TypeofNumber(v) == v.t \in {"number", "NaN", "Infinity"}

\* Number.isFinite
NumberIsFinite(v) == v.t = "number"

\* format with the typeof test only
formatTypeofOnly(v, long) ==
  IF ~TypeofNumber(v) THEN [kind |-> "throw", text |-> <<>>]
  ELSE [kind |-> "return", text |-> IF long THEN fmtLong(v) ELSE fmtShort(v)]

\* format(ms, options): long is options?.long; the outcome is a returned
\* text or the thrown error
format(v, long) ==
  IF ~TypeofNumber(v) \/ ~NumberIsFinite(v) THEN [kind |-> "throw", text |-> <<>>]
  ELSE [kind |-> "return", text |-> IF long THEN fmtLong(v) ELSE fmtShort(v)]

\* ----------------------------------------------------------------- state
VARIABLES
  cache,    \* parseCache: the entries [key, value] in Map order, oldest first
  i,        \* the counter of the cold-cache loop
  phase,    \* "start", "cold" (inside the loop) or "calls"
  arg,      \* the argument of the last parse call
  result,   \* the outcome of the last parse call
  calls,    \* the number of calls made, where a specification bounds them
  msArg,    \* the number given to the last format call
  longOpt,  \* options.long of the last format call
  text,     \* the string returned by the last format call
  fmtKind   \* "none", or how the last format call ended: "return" or "throw"

vars == <<cache, i, phase, arg, result, calls, msArg, longOpt, text, fmtKind>>

NoOutcome == [kind |-> "none", value |-> undefined, error |-> "", unit |-> <<>>]

Init ==
  /\ cache = <<>>
  /\ i = 0
  /\ phase = "start"
  /\ arg = <<>>
  /\ result = NoOutcome
  /\ calls = 0
  /\ msArg = Millis(0)
  /\ longOpt = FALSE
  /\ text = <<>>
  /\ fmtKind = "none"

\* one call parse(str) on the shared cache
ParseCall(str) ==
  LET r == parse(str, cache)
  IN  /\ cache' = r.cache
      /\ arg' = str
      /\ result' = r.outcome

\* one iteration of the cold-cache loop: parse(`${i}ms`)
ColdLoop ==
  /\ phase \in {"start", "cold"}
  /\ i < ColdIters
  /\ ParseCall(Digits(i) \o <<"m","s">>)
  /\ i' = i + 1
  /\ phase' = IF i + 1 = ColdIters THEN "calls" ELSE "cold"
  /\ UNCHANGED <<calls, msArg, longOpt, text, fmtKind>>

\* a caller's parse(str), before or after the loop
Call(str) ==
  /\ phase \in {"start", "calls"}
  /\ ParseCall(str)
  /\ phase' = "calls"
  /\ UNCHANGED <<i, calls, msArg, longOpt, text, fmtKind>>

\* ---------------------------------------------------------------- inputs
Spaces(n) == Repeat(" ", n)

\* a text of the given length (>= 3) that the grammar accepts: 1, spaces, ms
Padded(len) == <<"1">> \o Spaces(len - 3) \o <<"m","s">>

Oldest == <<"0","m","s">>

SecondOldest == <<"1","m","s">>

Inputs == {
  <<>>, Padded(101),
  Oldest, SecondOldest,
  <<"2","h">>, <<"2","h","o","u","r","s">>, <<"1",".","5","h">>,
  <<"a","b","c">>, <<"5","x","y","z">>, <<"c","o","n","s","t","r","u","c","t","o","r">> }

LengthInputs == { <<>>, Padded(99), Padded(100), Padded(101), Repeat("a", 100), <<"1">> }

GrammarInputs == {
  <<"a","b","c">>,
  <<"x","y","z">>,
  <<"m","s">>,
  <<"h">>,
  <<"h","o","u","r","s">>,
  <<"5","x","y","z">>,
  <<"5"," ","x","y","z">>,
  <<"5","h","z">>,
  <<"1",".","5"," ","s","x">>,
  <<"1",".">>,
  <<"-">>,
  <<".">>,
  <<"1","0","-",".","5">>,
  <<"1",".",".","5">>,
  <<"-","-","1">>,
  <<"1"," ","h"," ","2">>,
  <<"1","h"," ">>,
  <<" ","1","h">>,
  <<"1","e","3">>,
  <<"5"," ","m"," ","s">>,
  <<"c","o","n","s","t","r","u","c","t","o","r">>,
  <<"t","o","S","t","r","i","n","g">>,
  <<"v","a","l","u","e","O","f">> }

Next == ColdLoop \/ \E str \in Inputs : Call(str)

Spec == Init /\ [][Next]_vars

NextLength == ColdLoop \/ \E str \in LengthInputs : Call(str)

SpecLength == Init /\ [][NextLength]_vars

NextGrammar == ColdLoop \/ \E str \in GrammarInputs : Call(str)

SpecGrammar == Init /\ [][NextGrammar]_vars

\* ---------------------------------------------------------------- claims
Called == result.kind # "none"

Keys(c) == [n \in 1..Len(c) |-> c[n].key]

\* C1: parse raises the invalid-argument error exactly for the strings of
\* length 0 or of length greater than 99
C1_InvalidArgumentIffLengthOutside1To99 ==
  Called =>
    ((result.kind = "throw" /\ result.error = "InvalidArgument")
       <=> (Len(arg) = 0 \/ Len(arg) > 99))

\* C2: a string of valid length that does not match the grammar makes parse
\* return NaN: no error and no other value
C2_UnparseableReturnsNaN ==
  (Called /\ Len(arg) \in 1..99 /\ ~parseRegex(arg).matched) => result = Return(NaN)

\* a magnitude, optional spaces, then a word that is no key of the unit table
HasUnknownUnit(str) ==
  LET ve   == ValueEnd(str)
      rest == SubSeq(str, SpacesEnd(str, ve) + 1, Len(str))
  IN  /\ MatchesValue(SubSeq(str, 1, ve))
      /\ rest # <<>>
      /\ MatchesAnyWord(rest)
      /\ toLowerCase(rest) \notin DOMAIN unitMultipliers

FiveXyz == <<"5","x","y","z">>

\* C3 as stated: parse("5xyz") raises an error that names the unit "xyz"
C3_UnknownUnitIsRaised ==
  (Called /\ arg = FiveXyz) =>
    (result.kind = "throw" /\ result.error = "UnknownUnit" /\ result.unit = <<"x","y","z">>)

\* C3 amended: parse("5xyz") returns NaN and raises nothing; a magnitude
\* followed by a word that is no unit fails the grammar and yields NaN
C3_UnknownUnitReturnsNaN ==
  (Called /\ Len(arg) <= 99 /\ HasUnknownUnit(arg)) => result = Return(NaN)

C3_Witness == arg = FiveXyz /\ result = Return(NaN)

\* C4: every parse call returns what the cacheless parseOriginal returns
\* for the same string, whatever calls came before
C4_SameAsParseOriginal == Called => result = parseOriginal(arg)

\* C6: the cache never holds more than 100 entries and never holds a key twice
C6_AtMostMaxSizeDistinctKeys ==
  /\ Len(cache) <= 100
  /\ \A p, q \in 1..Len(cache) : cache[p].key = cache[q].key => p = q

\* the cache is full and the oldest key of the loop has been evicted
C6_Witness ==
  /\ Len(cache) = 100
  /\ i = ColdIters
  /\ ~LRUCacheHas(cache, Oldest)
  /\ LRUCacheHas(cache, SecondOldest)

Without(keys, key) == SelectSeq(keys, LAMBDA k : k # key)

\* C7: the order of the cache is the order of last use: a hit moves its key
\* to the most recent end, and an insertion into a full cache removes exactly
\* the entry at the least recent end
C7_EvictsLeastRecentlyUsed ==
  [][ /\ LRUCacheHas(cache, arg') =>
           Keys(cache') = Without(Keys(cache), arg') \o <<arg'>>
      /\ (~LRUCacheHas(cache, arg') /\ LRUCacheHas(cache', arg') /\ Len(cache) = 100) =>
           Keys(cache') = Tail(Keys(cache)) \o <<arg'>>
    ]_vars

\* after the fill, a hit on the oldest key and one new key: the second
\* oldest key is gone and the promoted key is still resident
C7_Witness ==
  /\ Len(cache) = 100
  /\ i = ColdIters
  /\ LRUCacheHas(cache, Oldest)
  /\ ~LRUCacheHas(cache, SecondOldest)

\* C8 as stated: no key of the fast-path table is ever resident in the cache
C8_NoFastPathKeyResident ==
  \A n \in 1..Len(cache) : cache[n].key \notin DOMAIN commonValues

\* C8 amended: a call with a fast-path key returns the table value and leaves
\* the key in the cache as its most recent entry: promoted when it was
\* resident, inserted (the oldest entry removed when full) when it was not
C8_FastPathKeyIsCached ==
  [][ arg' \in DOMAIN commonValues =>
        LET rest == Without(Keys(cache), arg')
        IN  /\ result' = Return(commonValues[arg'])
            /\ cache' # <<>>
            /\ cache'[Len(cache')] = [key |-> arg', value |-> commonValues[arg']]
            /\ Keys(cache') =
                 (IF Len(rest) >= 100 THEN Tail(rest) ELSE rest) \o <<arg'>>
    ]_vars

\* a fast-path key was inserted into the full cache and evicted the oldest
C8_Witness ==
  /\ arg \in DOMAIN commonValues
  /\ LRUCacheHas(cache, arg)
  /\ Len(cache) = 100
  /\ ~LRUCacheHas(cache, Oldest)

\* --------------------------------------------- spellings of one duration
UnitClasses == {Years, Months, Weeks, Days, Hours, Minutes, Seconds, Milliseconds}

Magnitudes == { <<"1">>, <<"2">> }

\* a magnitude with each spelling of a unit, in lower and in upper case,
\* attached and after a space
Variants(mag, class) ==
  UNION { { mag \o u, mag \o <<" ">> \o u,
            mag \o toUpperCase(u), mag \o <<" ">> \o toUpperCase(u) } :
            u \in class }

\* the magnitude text and the unit class of an accepted input
MagnitudeOf(str) == SubSeq(str, 1, ValueEnd(str))

ClassOf(str) ==
  LET u == toLowerCase(SubSeq(str, SpacesEnd(str, ValueEnd(str)) + 1, Len(str)))
  IN  CHOOSE class \in UnitClasses : u \in class

SameDuration(a, b) == MagnitudeOf(a) = MagnitudeOf(b) /\ ClassOf(a) = ClassOf(b)

\* a caller's parse(str) in a run of at most MaxCalls calls that parse
\* spellings of one duration, as parse("2h"), parse("2hours"), parse("2 HOURS")
SpellingCall(mag, class) ==
  /\ calls < MaxCalls
  /\ calls > 0 => arg \in Variants(mag, class)
  /\ \E str \in Variants(mag, class) : ParseCall(str)
  /\ calls' = calls + 1
  /\ UNCHANGED <<i, phase, msArg, longOpt, text, fmtKind>>

NextUnits == \E mag \in Magnitudes, class \in UnitClasses : SpellingCall(mag, class)

SpecUnits == Init /\ [][NextUnits]_vars

\* C5: every call returns a number, the one then stored for its string, and
\* the numbers of two strings that spell the same magnitude and the same unit
\* are identical, whether the table, the cache or the grammar produced them
C5_SpellingsAgree ==
  /\ Called =>
       /\ result.kind = "return"
       /\ IsNumber(result.value)
       /\ cache # <<>>
       /\ cache[Len(cache)] = [key |-> arg, value |-> result.value]
  /\ \A p, q \in 1..Len(cache) :
       SameDuration(cache[p].key, cache[q].key) =>
         NumEq(cache[p].value, cache[q].value)

\* 2h came from the table and 2 HOURS from the grammar, with one value
C5_Witness ==
  /\ Len(cache) = 2
  /\ cache[1].key = <<"2","h">>
  /\ cache[2].key = <<"2"," ","H","O","U","R","S">>
  /\ NumEq(cache[1].value, Times(2, h))
  /\ NumEq(result.value, Times(2, h))

\* ------------------------------------------------------------- round trip
UnitMultipliers == {Millis(1), s, m, h, d, w, mo, y}

\* the multiples of a unit multiplier that the round trip is tried for
Multiples(U) == {Times(k, U) : k \in (-RoundTripK)..RoundTripK}

\* parse(format(k * U, {long: false})), in a run of at most MaxRoundTrips
\* round trips over the multiples of one U
RoundTrip(k, U) ==
  LET v   == Times(k, U)
      str == format(v, FALSE).text
  IN  /\ calls < MaxRoundTrips
      /\ calls > 0 => msArg \in Multiples(U)
      /\ msArg' = v
      /\ longOpt' = FALSE
      /\ text' = str
      /\ fmtKind' = format(v, FALSE).kind
      /\ ParseCall(str)
      /\ calls' = calls + 1
      /\ UNCHANGED <<i, phase>>

NextRoundTrip ==
  \E k \in (-RoundTripK)..RoundTripK, U \in UnitMultipliers : RoundTrip(k, U)

SpecRoundTrip == Init /\ [][NextRoundTrip]_vars

\* the largest unit that is not above |v|, the millisecond below one second
SelectedUnit(v) ==
  LET fits == {U \in UnitMultipliers : Geq(Abs(v), U)}
  IN  IF fits = {} THEN Millis(1)
      ELSE CHOOSE U \in fits : \A V \in fits : Geq(U, V)

\* C9: parse(format(k*U)) is a number at most half a selected unit from k*U
C9_RoundTripWithinHalfUnit ==
  (Called /\ arg = text) =>
    /\ result.kind = "return"
    /\ IsNumber(result.value)
    /\ Geq(Half(SelectedUnit(msArg)), AbsDiff(result.value, msArg))
    /\ (result.value.neg = msArg.neg \/ IsZero(result.value))

\* seven weeks print as 2mo and read back as two months, not as seven weeks,
\* on the second round trip of the run
C9_Witness ==
  /\ calls = 2
  /\ msArg = Times(7, w)
  /\ arg = <<"2","m","o">>
  /\ result = Return(Times(2, mo))

\* ----------------------------------------------------------------- format
Negate(v) == Num(~v.neg, v.sec, v.us)

\* v - 1 for a number v >= 1
MinusOne(v) == AbsDiff(v, Millis(1))

UnitSizes == {s, m, h, d, w, mo, y}

\* the values around the unit thresholds and the plural thresholds, and
\* one and a half milliseconds
FormatInputs ==
  LET positive ==
        {Millis(0), Millis(1), Millis(500), Millis(999), Millis(3599999), Millis(5400000),
         Num(FALSE, 0, 1500)}
        \cup UnitSizes
        \cup {MinusOne(U) : U \in UnitSizes}
        \cup {TimesOneAndHalf(U) : U \in UnitSizes}
        \cup {MinusOne(TimesOneAndHalf(U)) : U \in UnitSizes}
        \cup {Times(2, U) : U \in UnitSizes}
  IN  positive \cup {Negate(v) : v \in positive}

\* values that are not finite numbers: NaN, the infinities, and values
\* that are not numbers at all
NotFiniteInputs ==
  {NaN, Infinity(FALSE), Infinity(TRUE), undefined, StringValue, ObjectPrototypeMember}

\* format(v, {long})
Format(v, long) ==
  /\ msArg' = v
  /\ longOpt' = long
  /\ text' = format(v, long).text
  /\ fmtKind' = format(v, long).kind
  /\ UNCHANGED <<cache, i, phase, arg, result, calls>>

NextFormat ==
  \E v \in FormatInputs \cup NotFiniteInputs, long \in BOOLEAN : Format(v, long)

SpecFormat == Init /\ [][NextFormat]_vars

Formatted == text # <<>>

\* C10 as stated: format(3599999, {long: true}) returns "1 hour"
C10_OneBelowHourIsOneHour ==
  (Formatted /\ msArg = Millis(3599999) /\ longOpt) => text = <<"1"," ","h","o","u","r">>

\* C10 amended: format(3599999, {long: true}) returns "60 minutes": the value
\* is below one hour, so the minute is selected and 59.99998 rounds to 60
C10_OneBelowHourIsSixtyMinutes ==
  (Formatted /\ msArg = Millis(3599999) /\ longOpt) => text = <<"6","0"," ","m","i","n","u","t","e","s">>

C10_Witness ==
  /\ msArg = Millis(3599999)
  /\ longOpt
  /\ text = <<"6","0"," ","m","i","n","u","t","e","s">>

\* C11: format raises exactly for the values that are not finite numbers
\* (NaN, the infinities, non-numbers), in both modes, and returns a text for
\* every finite number and for nothing else
C11_FormatRaisesIffNotFinite ==
  fmtKind # "none" =>
    /\ fmtKind = "throw" <=> msArg.t # "number"
    /\ fmtKind = "throw" => text = <<>>
    /\ fmtKind = "return" => text # <<>>

\* -Infinity in the verbose mode was refused
C11_Witness ==
  /\ fmtKind = "throw"
  /\ msArg = Infinity(TRUE)
  /\ longOpt

\* C12: no call raises the unknown-unit error: the unit alternatives of the
\* grammar are keys of the unit table, and the unit captured from an accepted
\* string, lowercased, is a key of the unit table
C12_UnknownUnitNeverRaised ==
  /\ \A u \in UnitAlternatives : PropertyRead(unitMultipliers, u) # undefined
  /\ Called =>
       /\ ~(result.kind = "throw" /\ result.error = "UnknownUnit")
       /\ parseRegex(arg).matched /\ parseRegex(arg).unit # <<>> =>
            toLowerCase(parseRegex(arg).unit) \in DOMAIN unitMultipliers

\* the grammar captured the unit YRS, and the call returned two years
C12_Witness ==
  /\ arg = <<"2"," ","Y","R","S">>
  /\ parseRegex(arg).unit = <<"Y","R","S">>
  /\ result = Return(Times(2, y))

\* a caller's parse(str) for a key of the fast-path table, in a run of at
\* most MaxCalls calls
TableCall(str) ==
  /\ calls < MaxCalls
  /\ ParseCall(str)
  /\ calls' = calls + 1
  /\ UNCHANGED <<i, phase, msArg, longOpt, text, fmtKind>>

NextTable == \E str \in DOMAIN commonValues : TableCall(str)

SpecTable == Init /\ [][NextTable]_vars

\* the number the grammar and the unit table give to an accepted string
GrammarValue(str) ==
  LET match == parseRegex(str)
      unit  == IF match.unit = <<>> THEN <<"m","s">> ELSE toLowerCase(match.unit)
  IN  Mul(parseFloat(match.value), unitMultipliers[unit])

\* C13: every key of the fast-path table matches the grammar and its value
\* is the magnitude times the multiplier of its unit in the unit table (1
\* without a unit), so a call with such a key returns what the grammar gives
C13_FastPathIsPureShortcut ==
  /\ \A k \in DOMAIN commonValues :
       parseRegex(k).matched /\ commonValues[k] = GrammarValue(k)
  /\ Called => result = Return(GrammarValue(arg))

\* "1y" was answered from the table with 365.25 days
C13_Witness ==
  /\ arg = <<"1","y">>
  /\ calls = 1
  /\ result = Return(Num(FALSE, 31557600, 0))
  /\ cache = <<[key |-> arg, value |-> Num(FALSE, 31557600, 0)]>>

\* the suffix of a unit in the compact form and its name in the verbose form
ShortSuffix(U) ==
  CASE U = y -> <<"y">> [] U = mo -> <<"m","o">> [] U = w -> <<"w">>
    [] U = d -> <<"d">> [] U = h -> <<"h">> [] U = m -> <<"m">>
    [] U = s -> <<"s">>

LongName(U) ==
  CASE U = y -> <<"y","e","a","r">> [] U = mo -> <<"m","o","n","t","h">>
    [] U = w -> <<"w","e","e","k">> [] U = d -> <<"d","a","y">>
    [] U = h -> <<"h","o","u","r">> [] U = m -> <<"m","i","n","u","t","e">>
    [] U = s -> <<"s","e","c","o","n","d">>

\* the whole numbers a formatted text of FormatInputs can show
Quotients == -60..60

\* q is Math.round(v / U): q * U is at most half a unit from v, on the side
\* of +Infinity when it is exactly half a unit away, and q has the sign of v
IsRounded(q, v, U) ==
  LET qU == Times(q, U)
  IN  /\ Geq(Half(U), AbsDiff(v, qU))
      /\ (q < 0) = v.neg
      /\ AbsDiff(v, qU) = Half(U) =>
           IF v.neg THEN Geq(Abs(v), Abs(qU)) ELSE Geq(Abs(qU), Abs(v))

\* C14: format of a finite number shows the largest unit among y, mo, w, d,
\* h, m, s that is not above |ms|, after Math.round(ms / unit) with the sign
\* of ms; below one second it shows the milliseconds as they are, with "ms"
\* in the compact form and " ms" in the verbose form
C14_LargestUnitRounded ==
  fmtKind = "return" =>
    LET U == SelectedUnit(msArg)
    IN  IF ~Geq(Abs(msArg), s)
          THEN LET suffix == IF longOpt THEN <<" ","m","s">> ELSE <<"m","s">>
                   number == SubSeq(text, 1, Len(text) - Len(suffix))
               IN  /\ text = number \o suffix
                   /\ MatchesValue(number)
                   /\ NumEq(Mul(parseFloat(number), Millis(1)), msArg)
          ELSE \E q \in Quotients :
                 /\ IsRounded(q, msArg, U)
                 /\ IF longOpt
                      THEN text \in { IntToString(q) \o <<" ">> \o LongName(U),
                                      IntToString(q) \o <<" ">> \o LongName(U) \o <<"s">> }
                      ELSE text = IntToString(q) \o ShortSuffix(U)

\* minus one and a half hours is "-1h" in the compact form
C14_Witness ==
  /\ fmtKind = "return"
  /\ msArg = Negate(TimesOneAndHalf(h))
  /\ ~longOpt
  /\ text = <<"-","1","h">>

\* the whole number that a verbose text of unit U shows
ShownNumber(U) ==
  CHOOSE q \in Quotients :
    text \in { IntToString(q) \o <<" ">> \o LongName(U),
               IntToString(q) \o <<" ">> \o LongName(U) \o <<"s">> }

\* the verbose text ends with the plural name of unit U
ShowsPlural(U) ==
  text = IntToString(ShownNumber(U)) \o <<" ">> \o LongName(U) \o <<"s">>

\* C15: in the verbose form of a number of at least one second the unit name
\* is plural exactly when |ms| is at least one and a half units, and it is
\* singular exactly when the number shown is 1 or -1
C15_PluralAgreesWithShownNumber ==
  (fmtKind = "return" /\ longOpt /\ Geq(Abs(msArg), s)) =>
    LET U == SelectedUnit(msArg)
    IN  /\ ShowsPlural(U) <=> Geq(Abs(msArg), TimesOneAndHalf(U))
        /\ ~ShowsPlural(U) <=> ShownNumber(U) \in {1, -1}

\* the entry of a resident key
EntryOf(c, key) == c[CHOOSE n \in 1..Len(c) : c[n].key = key]

\* C16: a call whose string is resident returns the stored value and moves
\* its entry to the most recent end; no entry is added or removed, no stored
\* value changes and the other entries keep their order
C16_HitOnlyPromotes ==
  [][ LRUCacheHas(cache, arg') =>
        /\ result' = Return(EntryOf(cache, arg').value)
        /\ Len(cache') = Len(cache)
        /\ cache' = SelectSeq(cache, LAMBDA entry : entry.key # arg')
                      \o <<EntryOf(cache, arg')>>
    ]_vars

\* after the loop, a hit on its oldest key: the key went from the least
\* recent end to the most recent end and the second oldest key is now first
C16_Witness ==
  /\ i = ColdIters
  /\ arg = Oldest
  /\ result = Return(Millis(0))
  /\ Len(cache) = ColdIters
  /\ cache[1].key = SecondOldest
  /\ cache[Len(cache)] = [key |-> Oldest, value |-> Millis(0)]

\* C17: a call that raises an error or returns NaN leaves the cache as it
\* was: the same entries in the same order
C17_FailedCallLeavesCache ==
  [][ (result'.kind = "throw" \/ result' = Return(NaN)) => cache' = cache ]_vars

\* "abc" was answered with NaN right after the loop, whose keys are all
\* still resident in the order of the loop
C17_Witness ==
  /\ i = ColdIters
  /\ arg = <<"a","b","c">>
  /\ result = Return(NaN)
  /\ Len(cache) = ColdIters
  /\ cache[1].key = Oldest

\* C18: every resident entry has a key of 1 to 99 characters that the
\* grammar accepts and a value that is a number, not NaN, equal to the
\* magnitude of the key times the multiplier of its unit
C18_EntriesAreParsedDurations ==
  \A n \in 1..Len(cache) :
    /\ Len(cache[n].key) \in 1..99
    /\ parseRegex(cache[n].key).matched
    /\ IsNumber(cache[n].value)
    /\ cache[n].value = GrammarValue(cache[n].key)

====
